---- MODULE Spec2Model ----
(***************************************************************************)
(* Model of the three-stage video submission pipeline:                     *)
(*   intake        src/telegram-webhook-handler/lambda_function.py         *)
(*   publish       src/lambda_video_processor/lambda_function.py           *)
(*   notification  src/lambda_response_handler/lambda_function.py          *)
(* Every entry point runs as an independent invocation; invocations share  *)
(* the relational store (volunteers, video_submissions), the staging       *)
(* bucket and the asynchronous stage triggers.  An invocation is a process *)
(* whose steps are the I/O calls of the code, so that invocations          *)
(* interleave between calls.                                               *)
(***************************************************************************)
EXTENDS Integers, Sequences, FiniteSets, TLC

\* ---------------------------------------------------------------- bounds
MaxInvocations == 3   \* invocations started over a behaviour

\* ------------------------------------------------------------ input sets
None == "None"
Chats == {"c1", "c2"}
FileIds == {"f1", "f2"}
Phones == {"p1"}
MimeTypes == {"video/mp4", "application/pdf"}
ContentLengths == {0, 1}
VideoIds == {None, "vi1"}
PlayerUrls == {None, "", "https://player/1"}
DatabaseUrls == {None, "postgresql+asyncpg://", "postgresql://", "mysql://"}

IntakeProcs == {1, 2}
PublishProcs == {1, 2}
NotifyProcs == {1}

VARIABLES
    volunteers,     \* table volunteers: id -> row
    submissions,    \* table video_submissions: id -> row (ids 1..n)
    staging,        \* staging bucket: key -> content length
    stage2,         \* stage-2 payloads sent by intake
    stage3,         \* stage-3 payloads sent by publish
    delivered,      \* messages the chat API accepted from the notification stage
    intake,         \* intake invocations
    publish,        \* publish invocations
    notify,         \* notification invocations
    started         \* invocations started so far

vars == <<volunteers, submissions, staging, stage2, stage3, delivered,
          intake, publish, notify, started>>

\* ------------------------------------------------------------------ text
\* A text is a sequence of pieces; f"...{x}" is concatenation.
Text(s) == <<s>>
Cat(a, b) == a \o b

\* nullable columns: <<>> is NULL, <<x>> holds x
Null == <<>>
Some(x) == <<x>>

\* ------------------------------------------------------- database access
Raised(r) == r[1] = "raise"

\* convert_database_url: the synchronous URL, or the exception raised
convert_database_url(database_url) ==
    IF database_url = None
    THEN <<"raise", Text("'NoneType' object has no attribute 'startswith'")>>
    ELSE IF database_url = "postgresql+asyncpg://" THEN <<"url", "postgresql://">>
    ELSE IF database_url = "postgresql://" THEN <<"url", database_url>>
    ELSE <<"raise", Cat(Text("Unsupported database URL format: "), Text(database_url))>>

\* psycopg2.connect on a converted URL; up: the server answers
Connect(converted, up) ==
    IF Raised(converted) THEN converted
    ELSE IF up THEN <<"conn", converted[2]>>
    ELSE <<"raise", Text("could not connect to server")>>

\* a close that is skipped when the block is left by an exception
CloseOnReturn(open, path) == IF path = "raise" THEN open ELSE open - 1

\* finally: conn.close(), for a block left by path ("return" or "raise"): the
\* connections the invocation holds afterwards
conn_close(open, path) == open - 1

\* psycopg2.connect, then try: ... finally: conn.close(): the connections the
\* invocation holds after the operation; nothing is opened when connecting
\* raises
Scoped(open, conn, path) ==
    IF Raised(conn) THEN open ELSE conn_close(open + 1, path)

\* what connecting can give an invocation whose DATABASE_URL converts to
\* converted
Connections(converted) == {Connect(converted, up) : up \in BOOLEAN}

\* what DATABASE_URL can convert to, over the deployments
ConvertedUrls == {convert_database_url(database_url) : database_url \in DatabaseUrls}

ExistingSubs == DOMAIN submissions

\* the slot a new invocation takes: the lowest idle one
FreeSlot(procs, i) ==
    procs[i].pc = "idle" /\ \A j \in DOMAIN procs : j < i => procs[j].pc # "idle"

\* a response is handed back before anything else happens
Quiet ==
    /\ \A i \in IntakeProcs : intake[i].pc # "done"
    /\ \A p \in PublishProcs : publish[p].pc # "done"
    /\ \A n \in NotifyProcs : notify[n].pc # "done"

\* ---------------------------------------------------------------- intake
NoContact == [present |-> FALSE, phone_number |-> None, user_id |-> None]
NoDocument == [present |-> FALSE, file_id |-> None, mime_type |-> None]
Contacts == {NoContact} \cup
            [present : {TRUE}, phone_number : Phones, user_id : Chats \cup {None}]
Documents == {NoDocument} \cup
             [present : {TRUE}, file_id : FileIds, mime_type : MimeTypes]
Updates == [chat : Chats, contact : Contacts, document : Documents,
            video : FileIds \cup {None}, text : BOOLEAN]

\* process_telegram_update, STEP 3: the video payload of a message; a
\* document whose mime type names video wins over a video field
VideoData(message) ==
    IF message.document.present /\ message.document.mime_type = "video/mp4"
    THEN message.document.file_id
    ELSE IF message.video # None THEN message.video
    ELSE None

\* the fields of the messages that process_telegram_update reads
Messages ==
    {[chat |-> u.chat, contact |-> u.contact, video_data |-> VideoData(u),
      text |-> u.text] : u \in Updates}

\* str(message['contact'].get('user_id', chat_id))
ContactUserId(message) ==
    IF message.contact.user_id = None THEN message.chat ELSE message.contact.user_id

NoKey == [submission_id |-> 0, ext |-> None]

IdleIntake ==
    [pc |-> "idle", chat |-> None, hasContact |-> FALSE, contact |-> None,
     video |-> None, database_url |-> None, converted |-> <<"url", None>>,
     volunteer |-> None, volAtGate |-> None,
     seen |-> {}, sid |-> 0, s3_key |-> NoKey, staged |-> FALSE,
     triggered |-> FALSE, prompted |-> FALSE, lookupFailed |-> FALSE, open |-> 0,
     result |-> None, result_sid |-> 0, statusCode |-> 0]

\* a response that reports a handoff that was not made as an error
IntakeStrict(r, status, id) ==
    IF status = "success" /\ ~r.triggered
    THEN [r EXCEPT !.pc = "done", !.result = "error", !.statusCode = 500]
    ELSE [r EXCEPT !.pc = "done", !.result = status, !.result_sid = id, !.statusCode = 200]

\* lambda_handler's two responses
IntakeOk(r, status, id) ==
    [r EXCEPT !.pc = "done", !.result = status, !.result_sid = id, !.statusCode = 200]
IntakeError(r) ==
    [r EXCEPT !.pc = "done", !.result = "error", !.statusCode = 500]

\* a lookup that never finds a row
NoSubmissions(file_id) == {}

\* a lookup that only finds Submissions that have left PROCESSING
FinishedByFileId(file_id) ==
    {s \in ExistingSubs : /\ submissions[s].telegram_file_id = file_id
                          /\ submissions[s].status # "PROCESSING"}

\* SELECT id FROM video_submissions WHERE telegram_file_id = file_id
SubmissionsByFileId(file_id) ==
    {s \in ExistingSubs : submissions[s].telegram_file_id = file_id}

\* check_volunteer_exists returns None without having read the table: the URL
\* is absent, or converting it or connecting raises
LookupFails(database_url, up) ==
    database_url = None \/ Raised(Connect(convert_database_url(database_url), up))

\* a gate that takes a chat for registered as soon as anyone is
AnyRegistered(chat_id, database_url, up) ==
    IF LookupFails(database_url, up) THEN None
    ELSE IF DOMAIN volunteers # {} THEN chat_id
    ELSE None

\* a gate that takes every chat for registered
AnyVolunteer(chat_id, database_url, up) == chat_id

\* a gate that answers from the table whether or not it could be read
check_without_database(chat_id, database_url, up) ==
    IF chat_id \in DOMAIN volunteers THEN chat_id ELSE None

\* SELECT * FROM volunteers WHERE id = chat_id, behind check_volunteer_exists'
\* own error handling: None when the URL is absent or anything raises
check_volunteer_exists(chat_id, database_url, up) ==
    IF database_url = None THEN None
    ELSE IF Raised(Connect(convert_database_url(database_url), up)) THEN None
    ELSE IF chat_id \in DOMAIN volunteers THEN chat_id
    ELSE None

\* an INSERT that leaves the row of a known id alone and does not mark a new
\* one verified
InsertUnverified(id, phone_number) ==
    IF id \in DOMAIN volunteers
    THEN volunteers
    ELSE volunteers @@ (id :> [phone_number |-> phone_number, phone_verified |-> FALSE])

\* the row INSERT ... ON CONFLICT (id) DO UPDATE leaves for id
UpsertVolunteer(id, phone_number) ==
    IF id \in DOMAIN volunteers
    THEN [volunteers EXCEPT ![id].phone_number = phone_number, ![id].phone_verified = TRUE]
    ELSE volunteers @@ (id :> [phone_number |-> phone_number, phone_verified |-> TRUE])

\* uuid.uuid4(): an identifier no row has
NewSubmissionId == Len(submissions) + 1

\* the row the INSERT creates
NewSubmission(volunteer_id, file_id) ==
    [volunteer_id |-> volunteer_id, telegram_file_id |-> file_id,
     status |-> "PROCESSING", video_platform_url |-> None,
     decline_reason |-> Null, notification_sent |-> Null,
     notification_sent_at |-> Null]

\* getFile: the file_path the chat platform gives for a file, split at its dots
FilePath(file_id) ==
    IF file_id = "f1" THEN <<"videos/file_0">> ELSE <<"videos/file_1", "mov">>

\* an extension taken from the path whether or not it has a dot
LastPiece(file_path) == file_path[Len(file_path)]

\* file_path.split('.')[-1] if '.' in file_path else 'mp4'
FileExtension(file_path) ==
    IF Len(file_path) > 1 THEN file_path[Len(file_path)] ELSE "mp4"

\* f"temp_videos/{submission_id}.{file_extension}"
S3Key(submission_id, file_path) ==
    [submission_id |-> submission_id, ext |-> FileExtension(file_path)]

\* the payload of trigger_video_processor
Stage2Payload(submission_id, volunteer_id, s3_key) ==
    [submission_id |-> submission_id, volunteer_id |-> volunteer_id, s3_key |-> s3_key]

NoIntakeRunning == \A i \in IntakeProcs : intake[i].pc = "idle"

\* what an intake invocation records of its message on arrival
Arrived(message) ==
    [IdleIntake EXCEPT
        !.chat = message.chat,
        !.hasContact = message.contact.present,
        !.video = message.video_data,
        !.volAtGate = IF message.chat \in DOMAIN volunteers THEN "present" ELSE "absent",
        !.seen = IF message.video_data = None THEN {}
                 ELSE SubmissionsByFileId(message.video_data)]

\* process_telegram_update, STEP 1: complete_user_registration and the
\* acknowledgement sent to the chat; the response and the volunteers table
Register(message, conn) ==
    LET r == [Arrived(message) EXCEPT !.contact = ContactUserId(message),
                                      !.open = Scoped(0, conn, "return")] IN
    IF Raised(conn)
    THEN [r |-> IntakeOk(r, "registration_failed", 0), volunteers |-> volunteers]
    ELSE [r |-> IntakeOk(r, "registration_completed", 0),
          volunteers |-> UpsertVolunteer(ContactUserId(message),
                                         message.contact.phone_number)]

\* process_telegram_update, STEPS 2 to 4: the gate and the branch taken
Gate(message, database_url, volunteer) ==
    LET g == [Arrived(message) EXCEPT
                !.volunteer = volunteer,
                !.database_url = IF volunteer = None THEN database_url ELSE None,
                !.converted = IF volunteer = None THEN <<"url", None>>
                              ELSE convert_database_url(database_url)]
    IN  IF volunteer = None
        THEN IntakeOk([g EXCEPT !.prompted = TRUE], "registration_required", 0)
        ELSE IF g.video # None THEN [g EXCEPT !.pc = "video"]
        ELSE IF message.text THEN IntakeOk(g, "help_sent", 0)
        ELSE IntakeOk(g, "unhandled_message", 0)

\* a handler that looks for a video before it looks for a contact
VideoFirst(message) ==
    IF message.contact.present /\ message.video_data = None
    THEN {Register(message, conn) :
            conn \in UNION {Connections(c) : c \in ConvertedUrls}}
    ELSE {[r |-> [Gate(message, database_url,
                       check_volunteer_exists(message.chat, database_url, up))
                  EXCEPT !.open = Scoped(0, Connect(convert_database_url(database_url), up),
                                         "return"),
                         !.lookupFailed = LookupFails(database_url, up)],
           volunteers |-> volunteers] :
            database_url \in DatabaseUrls, up \in BOOLEAN}

\* process_telegram_update up to the first call that other invocations can
\* observe, over the deployments and the answers of the database server
process_telegram_update(message) ==
    IF message.contact.present
    THEN {Register(message, conn) :
            conn \in UNION {Connections(c) : c \in ConvertedUrls}}
    ELSE {[r |-> [Gate(message, database_url,
                       check_volunteer_exists(message.chat, database_url, up))
                  EXCEPT !.open = Scoped(0, Connect(convert_database_url(database_url), up),
                                         "return"),
                         !.lookupFailed = LookupFails(database_url, up)],
           volunteers |-> volunteers] :
            database_url \in DatabaseUrls, up \in BOOLEAN}

\* lambda_handler: an update without a message, or a message handled by
\* process_telegram_update; overlap: other intake invocations may be running
IntakeReceive(i, overlap) ==
    /\ Quiet
    /\ FreeSlot(intake, i)
    /\ overlap \/ NoIntakeRunning
    /\ started < MaxInvocations
    /\ started' = started + 1
    /\ \E out \in {[r |-> IntakeOk(IdleIntake, "no_message", 0), volunteers |-> volunteers]}
                  \cup UNION {process_telegram_update(message) : message \in Messages} :
         /\ intake' = [intake EXCEPT ![i] = out.r]
         /\ volunteers' = out.volunteers
    /\ UNCHANGED <<submissions, staging, stage2, stage3, delivered, publish, notify>>

\* process_video_from_registered_user: connect and the duplicate lookup
IntakeLookup(i) ==
    LET r == intake[i] IN
    /\ Quiet
    /\ r.pc = "video"
    /\ \E conn \in Connections(r.converted) :
         IF Raised(conn)
         THEN intake' = [intake EXCEPT ![i] = IntakeError(r)]
         ELSE IF SubmissionsByFileId(r.video) # {}
         THEN \E existing \in SubmissionsByFileId(r.video) :
                intake' = [intake EXCEPT ![i] =
                    IntakeOk([r EXCEPT !.open = Scoped(r.open, conn, "return")],
                             "duplicate", existing)]
         ELSE intake' = [intake EXCEPT ![i].pc = "insert", ![i].open = r.open + 1]
    /\ UNCHANGED <<volunteers, submissions, staging, stage2, stage3, delivered,
                   publish, notify, started>>

\* the INSERT of the PROCESSING row and its commit, or the statement failing
IntakeInsert(i) ==
    LET r == intake[i] IN
    /\ Quiet
    /\ r.pc = "insert"
    /\ \/ /\ submissions' = Append(submissions, NewSubmission(r.volunteer, r.video))
          /\ intake' = [intake EXCEPT ![i].pc = "relay", ![i].sid = NewSubmissionId]
       \/ /\ intake' = [intake EXCEPT ![i] =
                IntakeError([r EXCEPT !.open = conn_close(r.open, "raise")])]
          /\ UNCHANGED submissions
    /\ UNCHANGED <<volunteers, staging, stage2, stage3, delivered, publish, notify, started>>

\* download_video_to_s3: the object is put, or a setting is absent or a
\* request fails and the exception leaves the invocation
IntakeRelay(i) ==
    LET r == intake[i] IN
    /\ Quiet
    /\ r.pc = "relay"
    /\ \/ \E content_length \in ContentLengths :
            LET s3_key == S3Key(r.sid, FilePath(r.video)) IN
            /\ staging' = (s3_key :> content_length) @@ staging
            /\ intake' = [intake EXCEPT ![i].pc = "trigger", ![i].s3_key = s3_key,
                                        ![i].staged = TRUE]
       \/ /\ intake' = [intake EXCEPT ![i] =
                IntakeError([r EXCEPT !.open = conn_close(r.open, "raise")])]
          /\ UNCHANGED staging
    /\ UNCHANGED <<volunteers, submissions, stage2, stage3, delivered, publish, notify, started>>

\* trigger_video_processor behind its guard, and the success result;
\* configured: VIDEO_PROCESSOR_FUNCTION_NAME is set, sent: the invoke succeeds
IntakeTrigger(i) ==
    LET r == [intake[i] EXCEPT !.open = conn_close(intake[i].open, "return")] IN
    /\ Quiet
    /\ r.pc = "trigger"
    /\ \E configured \in BOOLEAN, sent \in BOOLEAN :
         IF configured /\ sent
         THEN /\ stage2' = stage2 \cup {Stage2Payload(r.sid, r.volunteer, r.s3_key)}
              /\ intake' = [intake EXCEPT ![i] =
                    IntakeOk([r EXCEPT !.triggered = TRUE], "success", r.sid)]
         ELSE /\ UNCHANGED stage2
              /\ intake' = [intake EXCEPT ![i] = IntakeOk(r, "success", r.sid)]
    /\ UNCHANGED <<volunteers, submissions, staging, stage3, delivered, publish, notify, started>>

\* the invocation has returned its response
IntakeReturn(i) ==
    /\ intake[i].pc = "done"
    /\ intake' = [intake EXCEPT ![i] = IdleIntake]
    /\ UNCHANGED <<volunteers, submissions, staging, stage2, stage3, delivered,
                   publish, notify, started>>

\* --------------------------------------------------------------- publish
IdlePublish ==
    [pc |-> "idle", has_submission_id |-> FALSE, submission_id |-> 0,
     volunteer_id |-> None, s3_key |-> NoKey, converted |-> <<"url", None>>,
     status0 |-> None, size |-> -1, create_called |-> FALSE,
     upload_called |-> FALSE, url |-> None, updated |-> FALSE,
     deleted |-> FALSE, emitted |-> None, declined |-> 0, err |-> <<>>,
     open |-> 0, statusCode |-> 0]

\* the events the publish entry point is invoked with: a payload intake has
\* sent (delivered once or again), or such a payload with one key absent (0,
\* None and NoKey stand for an absent key) or naming another volunteer or a
\* submission that does not exist
SentOrForged ==
    stage2 \cup {Stage2Payload(NewSubmissionId, "c1", S3Key(NewSubmissionId, FilePath("f1")))}
PublishEvents ==
    UNION {{e, [e EXCEPT !.submission_id = 0], [e EXCEPT !.s3_key = NoKey],
            [e EXCEPT !.submission_id = NewSubmissionId]}
           \cup {[e EXCEPT !.volunteer_id = vid] : vid \in Chats \cup {None}} :
           e \in SentOrForged}

\* the exception texts of the publish stage
NotFoundText == Text("Submission not found in database")
MismatchText == Text("Data mismatch: Expected volunteer, got another")
UrlNotSetText == Text("DATABASE_URL environment variable not set")
BucketNotSetText == Text("S3_BUCKET_NAME environment variable not set")
ApiKeyNotSetText == Text("API_VIDEO_KEY environment variable not set")
UpdateFailedText ==
    Text("Failed to update submission - record not found or volunteer mismatch")
KeyErrorText(key) == Text(key)

\* get_submission_data: the row joined with its volunteer, None, or the
\* exception raised
get_submission_data(submission_id, database_url, up) ==
    IF database_url = None THEN <<"raise", UrlNotSetText>>
    ELSE LET conn == Connect(convert_database_url(database_url), up) IN
         IF Raised(conn) THEN conn
         ELSE IF /\ submission_id \in ExistingSubs
                 /\ submissions[submission_id].volunteer_id \in DOMAIN volunteers
         THEN <<"row", submission_id>>
         ELSE <<"none">>

\* a check that lets every payload through
NoMismatch(row_volunteer_id, volunteer_id) == FALSE

\* process_video_submission, Step 2: the integrity check
VolunteerMismatch(row_volunteer_id, volunteer_id) == row_volunteer_id # volunteer_id

\* process_video_submission, Steps 1 and 2: where the invocation stands after
\* them
Verify(r, data) ==
    IF Raised(data) THEN [r EXCEPT !.pc = "failed", !.err = data[2]]
    ELSE IF data[1] = "none" THEN [r EXCEPT !.pc = "failed", !.err = NotFoundText]
    ELSE IF VolunteerMismatch(submissions[data[2]].volunteer_id, r.volunteer_id)
    THEN [r EXCEPT !.pc = "failed", !.err = MismatchText]
    ELSE [r EXCEPT !.pc = "download"]

\* the payload of trigger_response_handler
Stage3Payload(submission_id, volunteer_id, status) ==
    [submission_id |-> submission_id, volunteer_id |-> volunteer_id, status |-> status]

\* a trigger that follows every payload of an invocation that has updated its
\* Submission by an error payload
trigger_and_report(r, status, configured, sent) ==
    IF configured /\ sent
    THEN stage3 \cup {Stage3Payload(r.submission_id, r.volunteer_id, status)}
                \cup (IF r.updated
                      THEN {Stage3Payload(r.submission_id, r.volunteer_id, "error")}
                      ELSE {})
    ELSE stage3

\* trigger_response_handler: the payloads sent so far, after the call;
\* configured: RESPONSE_HANDLER_FUNCTION_NAME is set, sent: the invoke succeeds
trigger_response_handler(r, status, configured, sent) ==
    IF configured /\ sent
    THEN stage3 \cup {Stage3Payload(r.submission_id, r.volunteer_id, status)}
    ELSE stage3

\* an UPDATE that records the reason and leaves the status as it was
SetReasonOnly(table, submission_id, status, reason) ==
    [s \in DOMAIN table |->
        IF s = submission_id
        THEN [table[s] EXCEPT !.decline_reason = Some(reason)]
        ELSE table[s]]

\* a failure write that puts the Submission back in the queue
ResetForRetry(table, submission_id, status, reason) ==
    [s \in DOMAIN table |->
        IF s = submission_id
        THEN [table[s] EXCEPT !.status = "PROCESSING", !.decline_reason = Some(reason)]
        ELSE table[s]]

\* the table after update_submission_status's UPDATE ... WHERE id = submission_id
SetStatus(table, submission_id, status, reason) ==
    [s \in DOMAIN table |->
        IF s = submission_id
        THEN [table[s] EXCEPT !.status = status, !.decline_reason = Some(reason)]
        ELSE table[s]]

\* update_submission_status: the table after the call; an exception is
\* logged and the table left as it was
update_submission_status(table, submission_id, status, reason, conn) ==
    IF Raised(conn) THEN table ELSE SetStatus(table, submission_id, status, reason)

\* the reason without the prefix
BareReason(err) == err

\* f"Processing failed: {str(e)}"
HandlerReason(err) == Cat(Text("Processing failed: "), err)

\* process_video_submission's except clause for an invocation that failed with
\* r.err: the DECLINED write, then the failure trigger, then raise
Declined(r, conn, named, sent) ==
    [r |-> [r EXCEPT !.pc = "raised",
                     !.declined = IF Raised(conn) THEN 0 ELSE 1,
                     !.open = Scoped(r.open, conn, "return"),
                     !.emitted = IF named /\ sent THEN "error" ELSE None],
     submissions |-> update_submission_status(submissions, r.submission_id,
                                              "DECLINED", r.err, conn),
     stage3 |-> trigger_response_handler(r, "error", named, sent)]

\* an except clause that writes DECLINED and answers as if nothing had failed
HandledQuietly(o, conn) ==
    IF o.r.has_submission_id
    THEN [o EXCEPT !.r.pc = "done", !.r.statusCode = 200,
                   !.r.declined = IF Raised(conn) THEN o.r.declined ELSE 2,
                   !.submissions = update_submission_status(o.submissions,
                        o.r.submission_id, "DECLINED", Cat(Text("Processing failed: "), o.r.err), conn)]
    ELSE [o EXCEPT !.r.pc = "done", !.r.statusCode = 200]

\* lambda_handler's except clause after o: the DECLINED write when the event
\* names a submission, and the 500 response
Handled(o, conn) ==
    IF o.r.has_submission_id
    THEN [o EXCEPT !.r.pc = "done", !.r.statusCode = 500,
                   !.r.declined = IF Raised(conn) THEN o.r.declined ELSE 2,
                   !.r.open = Scoped(o.r.open, conn, "return"),
                   !.submissions = update_submission_status(o.submissions,
                        o.r.submission_id, "DECLINED", HandlerReason(o.r.err), conn)]
    ELSE [o EXCEPT !.r.pc = "done", !.r.statusCode = 500]

\* what a failed invocation leaves: r.pc = "failed" when
\* process_video_submission raised, "handler" when lambda_handler's own code did
Failure(r) ==
    LET raised == IF r.pc = "failed"
                  THEN {Declined(r, conn, named, sent) :
                          conn \in Connections(r.converted),
                          named \in BOOLEAN, sent \in BOOLEAN}
                  ELSE {[r |-> r, submissions |-> submissions, stage3 |-> stage3]}
    IN  {Handled(o, conn) : o \in raised, conn \in Connections(r.converted)}

\* lambda_handler's reading of the event, then process_video_submission up to
\* the integrity check
PublishArrived(event, database_url, up) ==
    LET r == [IdlePublish EXCEPT
                !.has_submission_id = event.submission_id # 0,
                !.submission_id = event.submission_id,
                !.volunteer_id = event.volunteer_id,
                !.s3_key = event.s3_key,
                !.converted = convert_database_url(database_url),
                !.status0 = IF event.submission_id \in ExistingSubs
                            THEN submissions[event.submission_id].status ELSE None]
    IN  IF event.submission_id = 0
        THEN [r EXCEPT !.pc = "handler", !.err = KeyErrorText("'submission_id'")]
        ELSE IF event.volunteer_id = None
        THEN [r EXCEPT !.pc = "handler", !.err = KeyErrorText("'volunteer_id'")]
        ELSE IF event.s3_key = NoKey
        THEN [r EXCEPT !.pc = "handler", !.err = KeyErrorText("'s3_key'")]
        ELSE Verify([r EXCEPT !.open = Scoped(0, Connect(r.converted, up), "return")],
                    get_submission_data(event.submission_id, database_url, up))

\* lambda_handler from the event to the first call whose answer other
\* invocations can change: the download, or the end of an invocation that
\* failed before it
PublishReceive(p) ==
    /\ Quiet
    /\ FreeSlot(publish, p)
    /\ started < MaxInvocations
    /\ started' = started + 1
    /\ \E r \in {PublishArrived(event, database_url, up) :
                    event \in PublishEvents, database_url \in DatabaseUrls,
                    up \in BOOLEAN} :
         IF r.pc = "download"
         THEN /\ publish' = [publish EXCEPT ![p] = r]
              /\ UNCHANGED <<submissions, stage3>>
         ELSE \E o \in Failure(r) :
                /\ publish' = [publish EXCEPT ![p] = o.r]
                /\ submissions' = o.submissions
                /\ stage3' = o.stage3
    /\ UNCHANGED <<volunteers, staging, stage2, delivered, intake, notify>>

\* a size check that lets every file through
NeverEmpty(file_size) == FALSE

\* os.path.getsize(temp_file_path) == 0
FileIsEmpty(file_size) == file_size = 0

\* download_video_from_s3: the size of the temporary file, or the exception
\* raised; configured: S3_BUCKET_NAME is set, ok: the transfer succeeds
download_video_from_s3(s3_key, configured, ok) ==
    IF ~configured THEN <<"raise", BucketNotSetText>>
    ELSE IF ~ok \/ s3_key \notin DOMAIN staging
    THEN <<"raise", Cat(Text("Failed to download from S3: "), Text("An error occurred"))>>
    ELSE IF FileIsEmpty(staging[s3_key])
    THEN <<"raise", Cat(Text("Failed to download from S3: "),
                        Text("Downloaded file is empty"))>>
    ELSE <<"file", staging[s3_key]>>

\* the player asset as the response holds it, without the fallback
PlayerAsset(player, video_id) == player

\* upload_data.get('assets', {}).get('player'), and the fallback
PlayerUrl(player, video_id) ==
    IF player # None /\ player # ""
    THEN player
    ELSE "https://embed.api.video/vod/" \o video_id

\* upload_to_api_video: the player URL or the exception raised, and the
\* requests made; configured: API_VIDEO_KEY is set, created / uploaded: the
\* request succeeds, video_id / player: what the responses hold
upload_to_api_video(configured, created, video_id, uploaded, player) ==
    IF ~configured
    THEN [result |-> <<"raise", ApiKeyNotSetText>>,
          create_called |-> FALSE, upload_called |-> FALSE]
    ELSE IF ~created
    THEN [result |-> <<"raise", Cat(Text("api.video HTTP upload failed: "),
                                    Text("request failed"))>>,
          create_called |-> TRUE, upload_called |-> FALSE]
    ELSE IF video_id = None
    THEN [result |-> <<"raise", Cat(Text("api.video upload failed: "),
                                    Text("Failed to get videoId from response"))>>,
          create_called |-> TRUE, upload_called |-> FALSE]
    ELSE IF ~uploaded
    THEN [result |-> <<"raise", Cat(Text("api.video HTTP upload failed: "),
                                    Text("request failed"))>>,
          create_called |-> TRUE, upload_called |-> TRUE]
    ELSE [result |-> <<"url", PlayerUrl(player, video_id)>>,
          create_called |-> TRUE, upload_called |-> TRUE]

\* process_video_submission, Steps 3 and 4: the download, and the upload that
\* follows it when the download gave a file
PublishTransfer(p) ==
    LET r == publish[p] IN
    /\ Quiet
    /\ r.pc = "download"
    /\ \E configured \in BOOLEAN, ok \in BOOLEAN :
         LET file == download_video_from_s3(r.s3_key, configured, ok)
             d == [r EXCEPT !.size = IF r.s3_key \in DOMAIN staging /\ configured /\ ok
                                     THEN staging[r.s3_key] ELSE -1]
         IN  IF Raised(file)
             THEN publish' = [publish EXCEPT ![p] =
                                 [d EXCEPT !.pc = "failed", !.err = file[2]]]
             ELSE \E up \in {upload_to_api_video(key_set, created, video_id, uploaded, player) :
                               key_set \in BOOLEAN, created \in BOOLEAN,
                               video_id \in VideoIds, uploaded \in BOOLEAN,
                               player \in PlayerUrls} :
                    LET c == [d EXCEPT !.create_called = up.create_called,
                                       !.upload_called = up.upload_called]
                    IN  publish' = [publish EXCEPT ![p] =
                            IF Raised(up.result)
                            THEN [c EXCEPT !.pc = "failed", !.err = up.result[2]]
                            ELSE [c EXCEPT !.pc = "update", !.url = up.result[2]]]
    /\ UNCHANGED <<volunteers, submissions, staging, stage2, stage3, delivered,
                   intake, notify, started>>

\* an UPDATE that only matches a Submission that is still PROCESSING
RowsStillProcessing(submission_id, volunteer_id) ==
    {s \in ExistingSubs : /\ s = submission_id
                          /\ submissions[s].volunteer_id = volunteer_id
                          /\ submissions[s].status = "PROCESSING"}

\* the rows UPDATE ... WHERE id = submission_id AND volunteer_id = volunteer_id
\* matches
RowsToPublish(submission_id, volunteer_id) ==
    {s \in ExistingSubs : s = submission_id /\ submissions[s].volunteer_id = volunteer_id}

\* the table after update_submission_with_video_url's UPDATE
SetVideoUrl(rows, video_url) ==
    [s \in ExistingSubs |->
        IF s \in rows
        THEN [submissions[s] EXCEPT !.video_platform_url = video_url,
                                    !.status = "PENDING_REVIEW"]
        ELSE submissions[s]]

\* process_video_submission, Step 5: update_submission_with_video_url
PublishUpdate(p) ==
    LET r == publish[p]
        rows == RowsToPublish(r.submission_id, r.volunteer_id)
    IN
    /\ Quiet
    /\ r.pc = "update"
    /\ \E conn \in Connections(r.converted) :
         IF Raised(conn)
         THEN /\ publish' = [publish EXCEPT ![p].pc = "failed", ![p].err = conn[2]]
              /\ UNCHANGED submissions
         ELSE IF rows = {}
         THEN /\ publish' = [publish EXCEPT ![p].pc = "failed", ![p].err = UpdateFailedText,
                                            ![p].open = Scoped(r.open, conn, "raise")]
              /\ UNCHANGED submissions
         ELSE /\ submissions' = SetVideoUrl(rows, r.url)
              /\ publish' = [publish EXCEPT ![p].pc = "cleanup", ![p].updated = TRUE,
                                            ![p].open = Scoped(r.open, conn, "return")]
    /\ UNCHANGED <<volunteers, staging, stage2, stage3, delivered, intake, notify, started>>

\* a delete that empties the bucket
DeleteFolder(s3_key) == <<>>

\* the bucket after delete_object
DeleteObject(s3_key) == [k \in DOMAIN staging \ {s3_key} |-> staging[k]]

\* cleanup_s3_file: the bucket after the call; configured: S3_BUCKET_NAME is
\* set, ok: the delete succeeds
cleanup_s3_file(s3_key, configured, ok) ==
    IF configured /\ ok THEN DeleteObject(s3_key) ELSE staging

\* process_video_submission, Steps 6 and 7: the staging copy is deleted, then
\* the success trigger is sent, and lambda_handler responds 200
PublishFinish(p) ==
    LET r == publish[p] IN
    /\ Quiet
    /\ r.pc = "cleanup"
    /\ \E configured \in BOOLEAN, ok \in BOOLEAN, named \in BOOLEAN, sent \in BOOLEAN :
         /\ staging' = cleanup_s3_file(r.s3_key, configured, ok)
         /\ stage3' = trigger_response_handler(r, "success", named, sent)
         /\ publish' = [publish EXCEPT ![p].pc = "done", ![p].statusCode = 200,
                           ![p].deleted = configured /\ ok,
                           ![p].emitted = IF named /\ sent THEN "success" ELSE None]
    /\ UNCHANGED <<volunteers, submissions, stage2, delivered, intake, notify, started>>

\* the except clauses of process_video_submission and lambda_handler, after a
\* failure of the download, the upload or the update
PublishFail(p) ==
    /\ Quiet
    /\ publish[p].pc = "failed"
    /\ \E o \in Failure(publish[p]) :
         /\ publish' = [publish EXCEPT ![p] = o.r]
         /\ submissions' = o.submissions
         /\ stage3' = o.stage3
    /\ UNCHANGED <<volunteers, staging, stage2, delivered, intake, notify, started>>

\* the invocation has returned its response
PublishReturn(p) ==
    /\ publish[p].pc = "done"
    /\ publish' = [publish EXCEPT ![p] = IdlePublish]
    /\ UNCHANGED <<volunteers, submissions, staging, stage2, stage3, delivered,
                   intake, notify, started>>

\* ---------------------------------------------------------- notification
IdleNotify ==
    [pc |-> "idle", submission_id |-> 0, volunteer_id |-> None, status |-> None,
     converted |-> <<"url", None>>, sent |-> FALSE, recorded |-> FALSE,
     open |-> 0, statusCode |-> 0]

\* the events the notification entry point is invoked with: a payload publish
\* has sent (delivered once or again), or one without its status key
NotifyEvents == stage3 \cup {[e EXCEPT !.status = None] : e \in stage3}

\* get_submission_details: the row joined with its volunteer, or {} when there
\* is none or anything raises; only the link is read from it
get_submission_details(submission_id, conn) ==
    IF Raised(conn) THEN None
    ELSE IF /\ submission_id \in ExistingSubs
            /\ submissions[submission_id].volunteer_id \in DOMAIN volunteers
    THEN submissions[submission_id].video_platform_url
    ELSE None

\* format_success_message and format_error_message: the kind of the message
\* and the link it ends with; only a success message carries a link
FormatMessage(status, video_url) ==
    IF status = "success"
    THEN [kind |-> "complete", link |-> IF video_url # None /\ video_url # ""
                                         THEN video_url ELSE None]
    ELSE [kind |-> "error", link |-> None]

\* send_telegram_response: whether the message was sent, and the message the
\* chat received; token: TELEGRAM_BOT_TOKEN is set, posted: the request
\* succeeds, ok: the answer says ok
send_telegram_response(volunteer_id, status, video_url, token, posted, ok) ==
    IF token /\ posted /\ ok
    THEN [sent |-> TRUE,
          delivered |-> delivered \cup
             {[chat_id |-> volunteer_id, text |-> FormatMessage(status, video_url)]}]
    ELSE [sent |-> FALSE, delivered |-> delivered]

\* lambda_handler up to the delivery: the event is read and the message sent
NotifyReceive(n) ==
    /\ Quiet
    /\ FreeSlot(notify, n)
    /\ started < MaxInvocations
    /\ started' = started + 1
    /\ \E event \in NotifyEvents, converted \in ConvertedUrls :
         LET r == [IdleNotify EXCEPT !.submission_id = event.submission_id,
                                     !.volunteer_id = event.volunteer_id,
                                     !.status = event.status,
                                     !.converted = converted]
         IN  IF event.status = None
             THEN /\ notify' = [notify EXCEPT ![n] =
                                   [r EXCEPT !.pc = "done", !.statusCode = 500]]
                  /\ UNCHANGED delivered
             ELSE \E conn \in Connections(converted), token \in BOOLEAN,
                     posted \in BOOLEAN, ok \in BOOLEAN :
                    LET result == send_telegram_response(event.volunteer_id, event.status,
                                     get_submission_details(event.submission_id, conn),
                                     token, posted, ok)
                    IN  /\ notify' = [notify EXCEPT ![n] =
                                         [r EXCEPT !.pc = "record", !.sent = result.sent,
                                                   !.open = Scoped(0, conn, "return")]]
                        /\ delivered' = result.delivered
    /\ UNCHANGED <<volunteers, submissions, staging, stage2, stage3, intake, publish>>

\* an UPDATE that also marks the Submission's status
MarkNotified(submission_id, notification_sent) ==
    [s \in ExistingSubs |->
        IF s = submission_id
        THEN [submissions[s] EXCEPT
                !.status = IF notification_sent THEN "NOTIFIED" ELSE "DECLINED",
                !.notification_sent = Some(notification_sent),
                !.notification_sent_at = IF notification_sent THEN Some("utcnow") ELSE Null]
        ELSE submissions[s]]

\* an UPDATE that stamps notification_sent_at whatever the outcome
StampAlways(submission_id, notification_sent) ==
    [s \in ExistingSubs |->
        IF s = submission_id
        THEN [submissions[s] EXCEPT
                !.notification_sent = Some(notification_sent),
                !.notification_sent_at = Some("utcnow")]
        ELSE submissions[s]]

\* the table after update_notification_status's UPDATE ... WHERE id = submission_id
SetNotification(submission_id, notification_sent) ==
    [s \in ExistingSubs |->
        IF s = submission_id
        THEN [submissions[s] EXCEPT
                !.notification_sent = Some(notification_sent),
                !.notification_sent_at = IF notification_sent THEN Some("utcnow") ELSE Null]
        ELSE submissions[s]]

\* update_notification_status: the table after the call; nothing is written
\* when DATABASE_URL is absent or anything raises
update_notification_status(submission_id, notification_sent, conn) ==
    IF Raised(conn) THEN submissions ELSE SetNotification(submission_id, notification_sent)

\* lambda_handler after the delivery: the outcome is recorded and the 200
\* response returned
NotifyRecord(n) ==
    LET r == notify[n] IN
    /\ Quiet
    /\ r.pc = "record"
    /\ \E conn \in Connections(r.converted) :
         /\ submissions' = update_notification_status(r.submission_id, r.sent, conn)
         /\ notify' = [notify EXCEPT ![n].pc = "done", ![n].statusCode = 200,
                                     ![n].recorded = ~Raised(conn),
                                     ![n].open = Scoped(r.open, conn, "return")]
    /\ UNCHANGED <<volunteers, staging, stage2, stage3, delivered, intake, publish, started>>

\* the invocation has returned its response
NotifyReturn(n) ==
    /\ notify[n].pc = "done"
    /\ notify' = [notify EXCEPT ![n] = IdleNotify]
    /\ UNCHANGED <<volunteers, submissions, staging, stage2, stage3, delivered,
                   intake, publish, started>>

\* ------------------------------------------------------------------ init
Init ==
    /\ volunteers \in {<<>>, "c1" :> [phone_number |-> "p1", phone_verified |-> TRUE]}
    /\ submissions = <<>>
    /\ staging = <<>>
    /\ stage2 = {}
    /\ stage3 = {}
    /\ delivered = {}
    /\ intake = [i \in IntakeProcs |-> IdleIntake]
    /\ publish = [p \in PublishProcs |-> IdlePublish]
    /\ notify = [n \in NotifyProcs |-> IdleNotify]
    /\ started = 0

Next ==
    \/ \E i \in IntakeProcs : IntakeReceive(i, TRUE)
    \/ \E i \in IntakeProcs : IntakeLookup(i)
    \/ \E i \in IntakeProcs : IntakeInsert(i)
    \/ \E i \in IntakeProcs : IntakeRelay(i)
    \/ \E i \in IntakeProcs : IntakeTrigger(i)
    \/ \E i \in IntakeProcs : IntakeReturn(i)
    \/ \E p \in PublishProcs : PublishReceive(p)
    \/ \E p \in PublishProcs : PublishTransfer(p)
    \/ \E p \in PublishProcs : PublishUpdate(p)
    \/ \E p \in PublishProcs : PublishFinish(p)
    \/ \E p \in PublishProcs : PublishFail(p)
    \/ \E p \in PublishProcs : PublishReturn(p)
    \/ \E n \in NotifyProcs : NotifyReceive(n)
    \/ \E n \in NotifyProcs : NotifyRecord(n)
    \/ \E n \in NotifyProcs : NotifyReturn(n)

\* intake invocations run one after the other
SeqNext ==
    \/ \E i \in IntakeProcs : IntakeReceive(i, FALSE)
    \/ \E i \in IntakeProcs : IntakeLookup(i)
    \/ \E i \in IntakeProcs : IntakeInsert(i)
    \/ \E i \in IntakeProcs : IntakeRelay(i)
    \/ \E i \in IntakeProcs : IntakeTrigger(i)
    \/ \E i \in IntakeProcs : IntakeReturn(i)
    \/ \E p \in PublishProcs : PublishReceive(p)
    \/ \E p \in PublishProcs : PublishTransfer(p)
    \/ \E p \in PublishProcs : PublishUpdate(p)
    \/ \E p \in PublishProcs : PublishFinish(p)
    \/ \E p \in PublishProcs : PublishFail(p)
    \/ \E p \in PublishProcs : PublishReturn(p)
    \/ \E n \in NotifyProcs : NotifyReceive(n)
    \/ \E n \in NotifyProcs : NotifyRecord(n)
    \/ \E n \in NotifyProcs : NotifyReturn(n)

Spec == Init /\ [][Next]_vars

SeqSpec == Init /\ [][SeqNext]_vars

\* ------------------------------------------------------------ properties
RowsWithFileId(f) == {s \in DOMAIN submissions : submissions[s].telegram_file_id = f}
TriggersForFileId(f) ==
    {e \in stage2 : e.submission_id \in DOMAIN submissions
                    /\ submissions[e.submission_id].telegram_file_id = f}

\* C1: when intake invocations run one after the other, there is at most one
\* Submission per source file identifier, and an invocation of a registered
\* volunteer that arrives when a Submission with its file identifier exists
\* inserts nothing, stages nothing, emits no stage-2 trigger and, unless the
\* lookup itself fails, returns duplicate with the identifier of that record.
C1_IdempotentIntake ==
    /\ \A f \in FileIds : Cardinality(RowsWithFileId(f)) <= 1
    /\ \A i \in IntakeProcs :
         LET r == intake[i] IN
         (r.volunteer # None /\ r.video # None /\ r.seen # {} /\ r.pc = "done")
         => /\ r.sid = 0 /\ ~r.staged /\ ~r.triggered
            /\ r.statusCode = 200 => /\ r.result = "duplicate"
                                     /\ r.result_sid \in RowsWithFileId(r.video)
                                     /\ Cardinality(RowsWithFileId(r.video)) = 1

C1_Witness ==
    \E i \in IntakeProcs :
        /\ intake[i].pc = "done"
        /\ intake[i].result = "duplicate"
        /\ intake[i].result_sid \in RowsWithFileId(intake[i].video)
        /\ submissions[intake[i].result_sid].status = "PROCESSING"

\* C2 (as amended): an intake event carrying a video from a chat that has no
\* Volunteer record ends without a Submission inserted, anything staged or a
\* stage-2 trigger emitted; it ends with registration_required when it carries
\* no contact, and with a registration result when it carries one.
C2_RegistrationGate ==
    \A i \in IntakeProcs :
        LET r == intake[i] IN
        (r.video # None /\ r.volAtGate = "absent")
        => /\ r.pc = "done"
           /\ r.sid = 0 /\ ~r.staged /\ ~r.triggered
           /\ r.statusCode = 200
           /\ ~r.hasContact => r.result = "registration_required" /\ r.prompted
           /\ r.hasContact => r.result \in {"registration_completed", "registration_failed"}

C2_Witness ==
    \E i \in IntakeProcs :
        /\ intake[i].pc = "done"
        /\ intake[i].video # None
        /\ intake[i].volAtGate = "absent"
        /\ intake[i].result = "registration_required"
        /\ submissions = <<>>

\* C2 (as stated): every intake event carrying a video from a chat that has no
\* Volunteer record ends with registration_required and inserts nothing.
C2_AsStated ==
    \A i \in IntakeProcs :
        LET r == intake[i] IN
        (r.video # None /\ r.volAtGate = "absent")
        => /\ r.pc = "done"
           /\ r.sid = 0 /\ ~r.staged /\ ~r.triggered
           /\ r.result = "registration_required"

\* C3 (as stated): a publish invocation whose payload names another volunteer
\* than the Submission's owner leaves the Submission's status as it was when
\* the invocation started.
C3_IntegrityGuard ==
    \A p \in PublishProcs :
        LET r == publish[p] IN
        (r.pc = "done" /\ r.err = MismatchText)
        => /\ r.statusCode = 500
           /\ submissions[r.submission_id].status = r.status0

\* C4: every Submission that is PENDING_REVIEW has a non-empty
\* video_platform_url, and every Submission that is DECLINED has a non-empty
\* decline_reason.
C4_TerminalConsistency ==
    \A s \in DOMAIN submissions :
        /\ submissions[s].status = "PENDING_REVIEW"
           => submissions[s].video_platform_url \notin {None, ""}
        /\ submissions[s].status = "DECLINED"
           => /\ submissions[s].decline_reason # Null
              /\ submissions[s].decline_reason[1] # <<>>

C4_Witness ==
    \E s \in DOMAIN submissions :
        /\ submissions[s].status = "DECLINED"
        /\ submissions[s].decline_reason # Null
        /\ submissions[s].video_platform_url = "https://embed.api.video/vod/vi1"

\* C5: a publish invocation whose staged payload downloads with length zero
\* fails without creating a video container or uploading bytes, and writes no
\* URL.
C5_ZeroByteGuard ==
    \A p \in PublishProcs :
        LET r == publish[p] IN
        r.size = 0
        => /\ ~r.create_called /\ ~r.upload_called
           /\ r.pc \in {"failed", "done"}
           /\ ~r.updated /\ r.url = None
           /\ r.pc = "done" => r.statusCode = 500 /\ r.emitted # "success"

C5_Witness ==
    \E p \in PublishProcs :
        /\ publish[p].pc = "done"
        /\ publish[p].size = 0
        /\ submissions[publish[p].submission_id].status = "DECLINED"

UploadFailed(r) == r.pc = "done" /\ r.create_called /\ r.statusCode = 500

\* C6 (as amended): a publish invocation whose upload fails answers 500; its
\* first DECLINED write carries the error text and the entry point's second
\* write replaces it by "Processing failed: " followed by the error text, so
\* the Submission ends DECLINED with the prefixed text when the second write
\* commits and with the bare text when only the first does; a stage-3 error
\* payload is emitted when the target is set and the invoke succeeds, and no
\* success payload is.
C6_PublishFailurePath ==
    \A p \in PublishProcs :
        LET r == publish[p] IN
        UploadFailed(r)
        => /\ r.submission_id \in DOMAIN submissions
           /\ r.declined = 2
              => /\ submissions[r.submission_id].status = "DECLINED"
                 /\ submissions[r.submission_id].decline_reason
                       = Some(Cat(Text("Processing failed: "), r.err))
           /\ r.declined = 1
              => /\ submissions[r.submission_id].status = "DECLINED"
                 /\ submissions[r.submission_id].decline_reason = Some(r.err)
           /\ r.emitted \in {None, "error"}
           /\ r.emitted = "error"
              => Stage3Payload(r.submission_id, r.volunteer_id, "error") \in stage3
           /\ ~r.updated

C6_Witness ==
    \E p \in PublishProcs :
        /\ UploadFailed(publish[p])
        /\ publish[p].upload_called
        /\ publish[p].declined = 2
        /\ publish[p].emitted = "error"

\* C6 (as stated): a publish invocation whose upload fails, and whose writes
\* commit, leaves the Submission DECLINED with decline_reason equal to the error
\* text of the failure, and answers 500.
C6_AsStated ==
    \A p \in PublishProcs :
        LET r == publish[p] IN
        (UploadFailed(r) /\ r.declined = 2)
        => /\ submissions[r.submission_id].status = "DECLINED"
           /\ submissions[r.submission_id].decline_reason = Some(r.err)

\* C7 (as stated): when a publish invocation emits the stage-3 success payload
\* (after its update and its delete), the Submission is PENDING_REVIEW with a
\* URL.
C7_SuccessOrdering ==
    \A p \in PublishProcs :
        LET r == publish[p] IN
        (r.pc = "done" /\ r.emitted = "success")
        => /\ r.updated
           /\ submissions[r.submission_id].status = "PENDING_REVIEW"
           /\ submissions[r.submission_id].video_platform_url \notin {None, ""}

\* C8 (as stated): a Submission's video_platform_url is written at most once:
\* no update commits on a Submission whose URL is set.
C8_UrlWrittenOnce ==
    [][\A p \in PublishProcs :
         (publish[p].pc = "update" /\ publish'[p].updated)
         => submissions[publish[p].submission_id].video_platform_url = None]_vars

\* C9 (as stated): however intake invocations interleave, there is at most one
\* Submission and at most one stage-2 trigger per source file identifier.
C9_UniquenessUnderInterleaving ==
    \A f \in FileIds :
        /\ Cardinality(RowsWithFileId(f)) <= 1
        /\ Cardinality(TriggersForFileId(f)) <= 1

\* C10 (as stated): an intake invocation that fails after it has inserted its
\* Submission leaves that Submission DECLINED.
C10_FailurePropagation ==
    \A i \in IntakeProcs :
        LET r == intake[i] IN
        (r.pc = "done" /\ r.statusCode = 500 /\ r.sid # 0)
        => submissions[r.sid].status = "DECLINED"

\* C11 (as stated): a trigger is emitted only by an invocation whose write for
\* the Submission has committed: the insert before a stage-2 payload, the
\* PENDING_REVIEW update before a success payload, a DECLINED update before an
\* error payload.
C11_TriggerAfterCommit ==
    /\ \A i \in IntakeProcs :
         (intake[i].pc = "done" /\ intake[i].triggered)
         => intake[i].sid \in DOMAIN submissions
    /\ \A p \in PublishProcs :
         LET r == publish[p] IN
         /\ (r.pc = "done" /\ r.emitted = "success") => r.updated
         /\ (r.pc = "done" /\ r.emitted = "error" /\ r.submission_id \in DOMAIN submissions)
            => r.declined # 0

\* the columns of video_submissions other than the notification fields
OwnedByStages(table) ==
    [s \in DOMAIN table |->
        [volunteer_id |-> table[s].volunteer_id,
         telegram_file_id |-> table[s].telegram_file_id,
         status |-> table[s].status,
         video_platform_url |-> table[s].video_platform_url,
         decline_reason |-> table[s].decline_reason]]

\* C12: a step of a notification invocation leaves status, video_platform_url,
\* decline_reason, owner and file identifier of every Submission as they were
\* and creates or deletes none; every step that changes the status of a
\* Submission is a step of an intake or a publish invocation.
C12_WriteOwnership ==
    [][/\ notify' # notify => OwnedByStages(submissions') = OwnedByStages(submissions)
       /\ (\E s \in DOMAIN submissions :
              s \in DOMAIN submissions' /\ submissions'[s].status # submissions[s].status)
          => (publish' # publish \/ intake' # intake)]_vars

C12_Witness ==
    \E n \in NotifyProcs :
        /\ notify[n].pc = "done"
        /\ notify[n].recorded
        /\ notify[n].submission_id \in DOMAIN submissions
        /\ submissions[notify[n].submission_id].notification_sent = Some(notify[n].sent)
        /\ submissions[notify[n].submission_id].status \in {"PENDING_REVIEW", "DECLINED"}

\* C13: an intake invocation whose message carries a contact ends in the step
\* it arrives in, with registration_completed or registration_failed, whether
\* or not the chat has a Volunteer and whether or not the message carries a
\* video; the step leaves Submissions, staging and the triggers as they were;
\* on registration_completed the Volunteer of the contact's identifier exists
\* with the contact's phone number, on registration_failed the Volunteers are
\* as they were.
C13_RegistrationPath ==
    [][\A i \in IntakeProcs :
         (intake[i].pc = "idle" /\ intake'[i].hasContact)
         => /\ intake'[i].pc = "done"
            /\ intake'[i].statusCode = 200
            /\ intake'[i].sid = 0 /\ ~intake'[i].staged /\ ~intake'[i].triggered
            /\ UNCHANGED <<submissions, staging, stage2, stage3>>
            /\ intake'[i].result \in {"registration_completed", "registration_failed"}
            /\ intake'[i].result = "registration_completed"
               => /\ intake'[i].contact \in DOMAIN volunteers'
                  /\ volunteers'[intake'[i].contact].phone_number \in Phones
                  /\ \A v \in DOMAIN volunteers : v \in DOMAIN volunteers'
            /\ intake'[i].result = "registration_failed" => volunteers' = volunteers]_vars

C13_Witness ==
    \E i \in IntakeProcs :
        /\ intake[i].pc = "done"
        /\ intake[i].hasContact
        /\ intake[i].video # None
        /\ intake[i].volAtGate = "present"
        /\ intake[i].result = "registration_completed"
        /\ submissions # <<>>

\* C14: an intake invocation that staged its payload and emitted no stage-2
\* trigger (the target is not set or the invoke failed) ends with the success
\* result for its Submission; the Submission is there and PROCESSING, the
\* staged object is in staging and no stage-2 payload names the Submission;
\* stage-2 payloads are only added by the trigger step of the invocation that
\* inserted the Submission they name.
C14_HandoffWithoutRollback ==
    /\ [](\A i \in IntakeProcs :
            LET r == intake[i] IN
            (r.pc = "done" /\ r.staged /\ ~r.triggered)
            => /\ r.result = "success" /\ r.statusCode = 200 /\ r.result_sid = r.sid
               /\ r.sid \in DOMAIN submissions
               /\ submissions[r.sid].status = "PROCESSING"
               /\ submissions[r.sid].decline_reason = Null
               /\ r.s3_key \in DOMAIN staging
               /\ \A e \in stage2 : e.submission_id # r.sid)
    /\ [][\A e \in stage2' \ stage2 :
            \E i \in IntakeProcs :
                /\ intake[i].pc = "trigger" /\ intake'[i].pc = "done"
                /\ e.submission_id = intake[i].sid]_vars

C14_Witness ==
    \E i \in IntakeProcs :
        /\ intake[i].pc = "done"
        /\ intake[i].staged /\ ~intake[i].triggered
        /\ intake[i].result = "success"
        /\ intake[i].s3_key \in DOMAIN staging

\* every invocation that has started takes its next step, and a stage-3
\* payload that was sent starts a notification invocation
Fairness ==
    /\ \A i \in IntakeProcs :
         WF_vars(IntakeLookup(i) \/ IntakeInsert(i) \/ IntakeRelay(i)
                 \/ IntakeTrigger(i) \/ IntakeReturn(i))
    /\ \A p \in PublishProcs :
         WF_vars(PublishTransfer(p) \/ PublishUpdate(p) \/ PublishFinish(p)
                 \/ PublishFail(p) \/ PublishReturn(p))
    /\ \A n \in NotifyProcs :
         WF_vars(NotifyReceive(n) \/ NotifyRecord(n) \/ NotifyReturn(n))

FairSpec == Init /\ [][Next]_vars /\ Fairness

Terminal(s) ==
    s \in DOMAIN submissions /\ submissions[s].status \in {"PENDING_REVIEW", "DECLINED"}

\* the chat of the Submission's volunteer has received a notification message
Notified(s) ==
    /\ s \in DOMAIN submissions
    /\ \E m \in delivered : m.chat_id = submissions[s].volunteer_id

\* a notification invocation has made its delivery call for the Submission
DeliveryAttempted(s) ==
    \E n \in NotifyProcs :
        notify[n].pc \in {"record", "done"} /\ notify[n].submission_id = s

\* a stage-3 payload for the Submission waits, and the behaviour has started
\* all the invocations it starts
StillWaiting(s) ==
    started = MaxInvocations /\ \E e \in stage3 : e.submission_id = s

\* C15 (as stated): once a Submission is PENDING_REVIEW or DECLINED, its
\* volunteer's chat eventually receives a notification message, unless a
\* delivery call is made for it and fails.
C15_NotificationLiveness ==
    \A s \in 1..MaxInvocations :
        Terminal(s) ~> (Notified(s) \/ DeliveryAttempted(s) \/ StillWaiting(s))

\* C16 (as stated): a notification invocation ends with a response, and the
\* response signals failure exactly when required configuration (here the
\* database connection string) is absent.
C16_NotificationContainment ==
    \A n \in NotifyProcs :
        notify[n].pc = "done"
        => /\ notify[n].statusCode \in {200, 500}
           /\ notify[n].statusCode = 500
              <=> notify[n].converted = convert_database_url(None)

\* C17: an invocation holds no open connection when it ends, whatever path its
\* persistence operations were left by, and never holds more than one.
C17_NoConnectionLeaks ==
    /\ \A i \in IntakeProcs :
         /\ intake[i].open \in {0, 1}
         /\ intake[i].pc \in {"done", "idle"} => intake[i].open = 0
    /\ \A p \in PublishProcs :
         /\ publish[p].open \in {0, 1}
         /\ publish[p].pc \in {"done", "idle"} => publish[p].open = 0
    /\ \A n \in NotifyProcs :
         /\ notify[n].open \in {0, 1}
         /\ notify[n].pc \in {"done", "idle"} => notify[n].open = 0

C17_Witness ==
    \E i \in IntakeProcs :
        /\ intake[i].pc = "done"
        /\ intake[i].statusCode = 500
        /\ intake[i].sid # 0
        /\ intake[i].open = 0

\* the responses of the invocations that have ended: 200 or 500, and 500
\* exactly for the invocations in which something failed
ResponseShape ==
    /\ \A i \in IntakeProcs :
         intake[i].pc = "done"
         => /\ intake[i].statusCode \in {200, 500} /\ intake[i].open = 0
            /\ intake[i].statusCode = 500 <=> intake[i].result = "error"
    /\ \A p \in PublishProcs :
         publish[p].pc = "done"
         => /\ publish[p].statusCode \in {200, 500}
            /\ publish[p].statusCode = 500 <=> publish[p].err # <<>>
            /\ publish[p].statusCode = 200 <=> publish[p].updated
    /\ \A n \in NotifyProcs :
         notify[n].pc = "done"
         => /\ notify[n].statusCode \in {200, 500}
            /\ notify[n].statusCode = 500 <=> notify[n].status = None

\* C18: every invocation that has started ends with its response, 200 or 500;
\* an intake invocation answers 500 exactly when it failed, a publish
\* invocation answers 500 exactly when a step of it failed and 200 exactly
\* when its update committed.
C18_ResponseShape ==
    /\ []ResponseShape
    /\ \A i \in IntakeProcs : (intake[i].pc # "idle") ~> (intake[i].pc = "done")
    /\ \A p \in PublishProcs : (publish[p].pc # "idle") ~> (publish[p].pc = "done")
    /\ \A n \in NotifyProcs : (notify[n].pc # "idle") ~> (notify[n].pc = "done")

C18_Witness ==
    /\ \E p \in PublishProcs :
         publish[p].pc = "done" /\ publish[p].statusCode = 500 /\ publish[p].upload_called
    /\ \E s \in DOMAIN submissions : submissions[s].status = "DECLINED"

\* C19 (as stated): an invocation that needs the database connection string
\* and finds it absent ends with an error outcome: an intake invocation at the
\* registration gate, and a notification invocation.
C19_RequiredConfiguration ==
    /\ \A i \in IntakeProcs :
         (intake[i].pc = "done" /\ intake[i].prompted /\ intake[i].database_url = None)
         => intake[i].statusCode = 500 /\ intake[i].result = "error"
    /\ \A n \in NotifyProcs :
         (notify[n].pc = "done" /\ notify[n].converted = convert_database_url(None))
         => notify[n].statusCode = 500

\* C20: no step removes a Volunteer; only a step that acknowledges a
\* registration changes the Volunteers; such a step leaves exactly the rows it
\* found plus the row of the contact's identifier, that row verified and with
\* the contact's phone number and every other row as it was, and registering
\* the same contact again would leave the table as it is.
C20_VolunteerUpsert ==
    [][/\ \A v \in DOMAIN volunteers : v \in DOMAIN volunteers'
       /\ volunteers' # volunteers
          => \E i \in IntakeProcs :
                intake[i].pc = "idle" /\ intake'[i].result = "registration_completed"
       /\ \A i \in IntakeProcs :
            (intake[i].pc = "idle" /\ intake'[i].result = "registration_completed")
            => LET id == intake'[i].contact IN
               /\ DOMAIN volunteers' = DOMAIN volunteers \cup {id}
               /\ volunteers'[id].phone_verified
               /\ volunteers'[id].phone_number \in Phones
               /\ \A v \in DOMAIN volunteers \ {id} : volunteers'[v] = volunteers[v]
               /\ \A c \in Chats, ph \in Phones :
                    (c = id /\ volunteers'[c].phone_number = ph)
                    => UpsertVolunteer(c, ph)' = volunteers']_vars

C20_Witness ==
    \E i \in IntakeProcs :
        /\ intake[i].pc = "done"
        /\ intake[i].result = "registration_completed"
        /\ intake[i].chat = "c2"
        /\ intake[i].contact = "c2"
        /\ intake[i].volAtGate = "present"
        /\ DOMAIN volunteers = {"c1", "c2"}

\* the payload of a publish invocation names no Submission, or another
\* volunteer than the Submission's owner
PreconditionFails(r) ==
    \/ r.submission_id \notin DOMAIN submissions
    \/ submissions[r.submission_id].volunteer_id # r.volunteer_id

\* C21: a publish invocation whose Submission is missing, or whose payload
\* volunteer differs from the stored owner, ends in the step it arrives in
\* with a 500 response: it downloads nothing, makes no call to the video
\* platform, writes no URL and deletes nothing from staging, and that step
\* leaves staging and every stored URL as they were.
C21_PublishPreconditions ==
    /\ [](\A p \in PublishProcs :
            LET r == publish[p] IN
            (r.pc # "idle" /\ PreconditionFails(r))
            => /\ r.pc = "done" /\ r.statusCode = 500
               /\ r.size = -1 /\ ~r.create_called /\ ~r.upload_called
               /\ r.url = None /\ ~r.updated /\ ~r.deleted
               /\ r.emitted # "success")
    /\ [][\A p \in PublishProcs :
            (publish[p].pc = "idle" /\ publish'[p].pc # "idle"
             /\ \/ publish'[p].submission_id \notin DOMAIN submissions
                \/ submissions[publish'[p].submission_id].volunteer_id
                      # publish'[p].volunteer_id)
            => /\ staging' = staging
               /\ \A s \in DOMAIN submissions :
                    submissions'[s].video_platform_url = submissions[s].video_platform_url]_vars

C21_Witness ==
    \E p \in PublishProcs :
        LET r == publish[p] IN
        /\ r.pc = "done"
        /\ r.submission_id \in DOMAIN submissions
        /\ r.volunteer_id \in Chats
        /\ submissions[r.submission_id].volunteer_id # r.volunteer_id
        /\ r.s3_key \in DOMAIN staging
        /\ staging[r.s3_key] = 1

\* the exception texts a failing connection attempt of r can raise
ConnectionErrors(r) == {conn[2] : conn \in {c \in Connections(r.converted) : Raised(c)}}

\* C22: a publish invocation that arrives for a Submission that is already
\* PENDING_REVIEW, with the owner's identifier and a staging key, is stopped at
\* arrival only by a database failure, never because of the status; when its
\* update step runs with the database reachable the update commits: it
\* replaces video_platform_url by the URL of this invocation's upload and
\* leaves the status PENDING_REVIEW.
C22_NoStatusGuard ==
    [][\A p \in PublishProcs :
         LET r == publish'[p] IN
         /\ (/\ publish[p].pc = "idle" /\ r.pc # "idle"
             /\ r.status0 = "PENDING_REVIEW"
             /\ r.volunteer_id = submissions[r.submission_id].volunteer_id
             /\ r.s3_key # NoKey)
            => \/ r.pc = "download"
               \/ r.pc = "done" /\ r.err \in ConnectionErrors(r) \cup {UrlNotSetText}
         /\ (/\ publish[p].pc = "update" /\ r.pc # "update"
             /\ publish[p].status0 = "PENDING_REVIEW")
            => \/ /\ r.pc = "cleanup" /\ r.updated
                  /\ submissions'[r.submission_id].video_platform_url = publish[p].url
                  /\ submissions'[r.submission_id].status = "PENDING_REVIEW"
               \/ /\ r.pc = "failed" /\ r.err \in ConnectionErrors(r)
                  /\ submissions' = submissions]_vars

\* two invocations for one Submission: the second arrived when it was
\* PENDING_REVIEW and has replaced the URL the first wrote
C22_Witness ==
    /\ publish[1].pc = "cleanup" /\ publish[1].updated
    /\ publish[2].pc = "cleanup" /\ publish[2].updated
    /\ publish[2].status0 = "PENDING_REVIEW"
    /\ publish[2].submission_id = publish[1].submission_id
    /\ publish[2].url # publish[1].url
    /\ submissions[publish[2].submission_id].video_platform_url = publish[2].url
    /\ submissions[publish[2].submission_id].status = "PENDING_REVIEW"

\* temp_videos/<submission id>.<extension> for the Submission s: the extension
\* of the source path, mp4 when the path has none
ExpectedKey(s) ==
    LET file_path == FilePath(submissions[s].telegram_file_id) IN
    [submission_id |-> s,
     ext |-> IF Len(file_path) = 1 THEN "mp4" ELSE file_path[2]]

\* C23: an intake invocation for a new video inserts the PROCESSING record,
\* then relays the payload to staging under temp_videos/<submission id>.<ext>
\* (mp4 when the source path has no extension), then emits the stage-2
\* trigger: the relay step follows the insert and the trigger step the relay,
\* and a step that emits a stage-2 payload finds a PROCESSING Submission with
\* the payload's submission_id, owned by the payload's volunteer, and an object
\* in staging under the payload's key.
C23_IntakeStepOrder ==
    [][/\ \A i \in IntakeProcs :
            /\ (intake'[i].pc = "relay" /\ intake[i].pc # "relay")
               => /\ intake[i].pc = "insert"
                  /\ intake'[i].sid \in DOMAIN submissions' \ DOMAIN submissions
                  /\ submissions'[intake'[i].sid].status = "PROCESSING"
                  /\ UNCHANGED <<staging, stage2>>
            /\ (intake'[i].pc = "trigger" /\ intake[i].pc # "trigger")
               => /\ intake[i].pc = "relay"
                  /\ intake[i].sid \in DOMAIN submissions
                  /\ intake'[i].s3_key = ExpectedKey(intake[i].sid)
                  /\ intake'[i].s3_key \in DOMAIN staging'
                  /\ UNCHANGED <<submissions, stage2>>
       /\ \A e \in stage2' \ stage2 :
            /\ \E i \in IntakeProcs : intake[i].pc = "trigger" /\ intake[i].sid = e.submission_id
            /\ e.submission_id \in DOMAIN submissions
            /\ submissions[e.submission_id].status = "PROCESSING"
            /\ submissions[e.submission_id].volunteer_id = e.volunteer_id
            /\ e.s3_key = ExpectedKey(e.submission_id)
            /\ e.s3_key \in DOMAIN staging]_vars

\* a trigger emitted for a source path without an extension
C23_Witness ==
    \E i \in IntakeProcs :
        /\ intake[i].pc = "done" /\ intake[i].triggered
        /\ intake[i].video = "f1"
        /\ intake[i].s3_key = [submission_id |-> intake[i].sid, ext |-> "mp4"]
        /\ Stage2Payload(intake[i].sid, intake[i].chat, intake[i].s3_key) \in stage2
        /\ intake[i].s3_key \in DOMAIN staging

\* C24: when a notification invocation has ended with its status write
\* committed, the Submission's notification_sent is the outcome of that
\* invocation's delivery attempt and notification_sent_at is set exactly when
\* the outcome is true; in every state a Submission whose notification_sent is
\* true has notification_sent_at set, and one whose notification_sent is false
\* or null has it null.
C24_DeliveryRecording ==
    /\ \A n \in NotifyProcs :
         LET r == notify[n] IN
         (r.pc = "done" /\ r.recorded /\ r.submission_id \in DOMAIN submissions)
         => /\ submissions[r.submission_id].notification_sent = <<r.sent>>
            /\ r.sent <=> submissions[r.submission_id].notification_sent_at # <<>>
    /\ \A s \in DOMAIN submissions :
         /\ submissions[s].notification_sent = <<TRUE>>
            => submissions[s].notification_sent_at # <<>>
         /\ submissions[s].notification_sent \in {<<>>, <<FALSE>>}
            => submissions[s].notification_sent_at = <<>>

C24_Witness ==
    \E n \in NotifyProcs :
        /\ notify[n].pc = "done" /\ notify[n].recorded /\ notify[n].sent
        /\ notify[n].submission_id \in DOMAIN submissions
        /\ submissions[notify[n].submission_id].notification_sent = <<TRUE>>
        /\ submissions[notify[n].submission_id].notification_sent_at # <<>>
        /\ \E m \in delivered : m.chat_id = notify[n].volunteer_id

\* C25: a publish invocation that names an existing Submission and ends with
\* one of its writes committed (the PENDING_REVIEW update, or a DECLINED write
\* of either except clause) leaves that Submission PENDING_REVIEW or DECLINED,
\* and so does one that fails before processing starts because the payload
\* lacks volunteer_id or s3_key; an invocation ends with its Submission still
\* PROCESSING only when it answered 500 and none of its writes committed.
C25_PublishLeavesTerminal ==
    \A p \in PublishProcs :
        LET r == publish[p] IN
        (r.pc = "done" /\ r.has_submission_id /\ r.submission_id \in DOMAIN submissions)
        => /\ (r.updated \/ r.declined # 0)
              => submissions[r.submission_id].status \in {"PENDING_REVIEW", "DECLINED"}
           /\ submissions[r.submission_id].status = "PROCESSING"
              => r.statusCode = 500 /\ ~r.updated /\ r.declined = 0
           /\ submissions[r.submission_id].status
                 \in {"PROCESSING", "PENDING_REVIEW", "DECLINED"}

\* an invocation whose payload lacks its staging key, for a Submission that
\* was PROCESSING
C25_Witness ==
    \E p \in PublishProcs :
        LET r == publish[p] IN
        /\ r.pc = "done" /\ r.statusCode = 500
        /\ r.s3_key = NoKey /\ r.volunteer_id # None
        /\ r.status0 = "PROCESSING"
        /\ r.declined = 2
        /\ submissions[r.submission_id].status = "DECLINED"

\* an intake invocation arrives with a message without a contact: the gate
\* decides in this step
AtGate(i) == intake[i].pc = "idle" /\ intake'[i].chat # None /\ ~intake'[i].hasContact

\* the invocation was let through the gate
PassedGate(r) == r.volunteer # None /\ r.result # "registration_required"

Stranded(s) ==
    /\ s \in DOMAIN submissions
    /\ \A i \in IntakeProcs : intake[i].sid = s => intake[i].pc = "done"
    /\ \A k \in DOMAIN staging : k.submission_id # s
    /\ \A e \in stage2 : e.submission_id # s

\* C27: an intake invocation whose relay fails after its insert ends with an
\* error and leaves its Submission PROCESSING, with nothing staged and no
\* stage-2 payload for it; an invocation whose lookup runs when a Submission
\* with its file identifier exists inserts, stages and triggers nothing and,
\* when it answers 200, answers duplicate with such a Submission; the stranded
\* Submission stays stranded, PROCESSING and without URL in every later step.
C27_StrandedSubmission ==
    /\ [](\A i \in IntakeProcs :
            LET r == intake[i] IN
            /\ (r.pc = "done" /\ r.sid # 0 /\ ~r.staged)
               => /\ r.statusCode = 500 /\ r.result = "error" /\ ~r.triggered
                  /\ Stranded(r.sid)
                  /\ submissions[r.sid].status = "PROCESSING"
            /\ (r.pc = "done" /\ r.result = "duplicate")
               => r.sid = 0 /\ ~r.staged /\ ~r.triggered)
    /\ [][/\ \A s \in DOMAIN submissions :
               Stranded(s) => /\ Stranded(s)'
                              /\ submissions'[s].status = "PROCESSING"
                              /\ submissions'[s].video_platform_url = None
          /\ \A i \in IntakeProcs :
               (intake[i].pc = "video" /\ intake'[i].pc # "video"
                /\ \E s \in DOMAIN submissions :
                      submissions[s].telegram_file_id = intake[i].video)
               => /\ intake'[i].pc = "done"
                  /\ UNCHANGED <<submissions, staging, stage2>>
                  /\ intake'[i].statusCode = 200
                     => /\ intake'[i].result = "duplicate"
                        /\ submissions[intake'[i].result_sid].telegram_file_id
                              = intake[i].video]_vars

\* a duplicate answer that names a stranded Submission
C27_Witness ==
    \E i \in IntakeProcs :
        /\ intake[i].pc = "done" /\ intake[i].result = "duplicate"
        /\ Stranded(intake[i].result_sid)
        /\ submissions[intake[i].result_sid].status = "PROCESSING"
        /\ staging = <<>> /\ stage2 = {}

\* C28: when the Volunteer lookup of an intake invocation fails (the database
\* is unreachable, the connection string is absent or of an unsupported
\* scheme), the invocation ends in that step as for an unregistered chat,
\* whether or not the chat has a Volunteer: the registration prompt is sent,
\* the result is registration_required with statusCode 200, and no Submission
\* is created, nothing staged and nothing triggered.
C28_GateLookupFailure ==
    [][\A i \in IntakeProcs :
         (intake[i].pc = "idle" /\ intake'[i].chat # None /\ ~intake'[i].hasContact
          /\ intake'[i].lookupFailed)
         => /\ intake'[i].pc = "done"
            /\ intake'[i].result = "registration_required"
            /\ intake'[i].statusCode = 200
            /\ intake'[i].prompted
            /\ intake'[i].sid = 0 /\ ~intake'[i].staged /\ ~intake'[i].triggered
            /\ UNCHANGED <<volunteers, submissions, staging, stage2>>]_vars

\* a video from a registered chat, met by a connection string of an
\* unsupported scheme
C28_Witness ==
    \E i \in IntakeProcs :
        /\ intake[i].pc = "done"
        /\ intake[i].lookupFailed
        /\ intake[i].database_url = "mysql://"
        /\ intake[i].video # None
        /\ intake[i].chat \in DOMAIN volunteers
        /\ intake[i].volAtGate = "present"
        /\ intake[i].result = "registration_required"

\* the staging keys a step deletes
Deleted == DOMAIN staging \ DOMAIN staging'

\* C29 (as amended): a staged copy is deleted only by the cleanup step of a
\* publish invocation whose PENDING_REVIEW update has committed, and that step
\* deletes the key of its own payload only; a publish invocation that answers
\* 500 has deleted nothing, no step of a failing publish invocation, of an
\* intake or of a notification invocation deletes a staged copy, and the copy
\* a failed invocation left is deleted only if a later delivery of the payload
\* publishes it.
C29_StagingRetention ==
    [][/\ \A k \in Deleted :
            \E p \in PublishProcs :
                /\ publish[p].pc = "cleanup" /\ publish[p].updated
                /\ publish[p].s3_key = k
                /\ publish'[p].pc = "done" /\ publish'[p].statusCode = 200
                /\ publish'[p].deleted
       /\ \A p \in PublishProcs :
            /\ (publish'[p] # publish[p] /\ publish[p].pc # "cleanup") => staging' = staging
            /\ (publish'[p].pc = "done" /\ publish'[p].statusCode = 500)
               => ~publish'[p].deleted
       /\ notify' # notify => staging' = staging
       /\ intake' # intake => Deleted = {}]_vars

\* an invocation whose upload failed, and the copy it leaves
C29_Witness ==
    \E p \in PublishProcs :
        /\ publish[p].pc = "done" /\ publish[p].statusCode = 500
        /\ publish[p].upload_called
        /\ ~publish[p].deleted
        /\ publish[p].s3_key \in DOMAIN staging
        /\ submissions[publish[p].submission_id].status = "DECLINED"

\* C29 (as stated): the staged copy of a Submission for which a publish
\* failure has been recorded is never deleted.
C29_AsStated ==
    [][\A k \in Deleted :
         k.submission_id \in DOMAIN submissions
         => submissions[k.submission_id].decline_reason = Null]_vars

\* C30: once the PENDING_REVIEW update of a publish invocation has committed,
\* no later step of that invocation writes to the Submissions: its remaining
\* step answers 200 whether or not the staging delete and the stage-3 trigger
\* succeed; an invocation that has updated has recorded no failure and no
\* DECLINED write, a step emits at most one stage-3 payload, an error payload
\* only from an invocation that has not updated and a success payload only
\* from one that has.
C30_NoDeclineAfterPublish ==
    /\ [](\A p \in PublishProcs :
            LET r == publish[p] IN
            /\ r.updated => /\ r.declined = 0 /\ r.err = <<>>
                            /\ r.pc \in {"cleanup", "done"}
                            /\ r.emitted \in {None, "success"}
                            /\ r.pc = "done" => r.statusCode = 200
            /\ r.declined # 0 => ~r.updated /\ r.emitted \in {None, "error"})
    /\ [][/\ \A p \in PublishProcs :
               (publish[p].updated /\ publish'[p] # publish[p])
               => /\ submissions' = submissions
                  /\ publish'[p].pc \in {"done", "idle"}
                  /\ \A e \in stage3' \ stage3 : e.status = "success"
          /\ Cardinality(stage3' \ stage3) <= 1
          /\ \A e \in stage3' \ stage3 :
               \E p \in PublishProcs :
                   /\ publish'[p].pc = "done" /\ publish[p].pc # "done"
                   /\ e.submission_id = publish'[p].submission_id
                   /\ e.status = "success" <=> publish'[p].updated
                   /\ e.status = "error" <=> publish'[p].statusCode = 500]_vars

\* a published Submission whose staging delete and stage-3 trigger both
\* failed
C30_Witness ==
    \E p \in PublishProcs :
        /\ publish[p].pc = "done" /\ publish[p].updated
        /\ publish[p].statusCode = 200
        /\ ~publish[p].deleted /\ publish[p].emitted = None
        /\ publish[p].s3_key \in DOMAIN staging
        /\ submissions[publish[p].submission_id].status = "PENDING_REVIEW"
        /\ stage3 = {}

\* C31: the status of every Submission is PROCESSING, PENDING_REVIEW or
\* DECLINED; a step that creates a Submission creates it PROCESSING, with no
\* URL, no decline reason and no notification fields; no step deletes a
\* Submission, changes its owner or its file identifier, or sets a status
\* that has left PROCESSING back to PROCESSING.
C31_StatusMonotonicity ==
    /\ [](\A s \in DOMAIN submissions :
            /\ submissions[s].status \in {"PROCESSING", "PENDING_REVIEW", "DECLINED"}
            /\ submissions[s].status = "PROCESSING"
               => submissions[s].video_platform_url = None)
    /\ [][/\ \A s \in DOMAIN submissions' \ DOMAIN submissions :
               /\ submissions'[s].status = "PROCESSING"
               /\ submissions'[s].video_platform_url = None
               /\ submissions'[s].decline_reason = <<>>
               /\ submissions'[s].notification_sent = <<>>
               /\ submissions'[s].notification_sent_at = <<>>
          /\ \A s \in DOMAIN submissions :
               /\ s \in DOMAIN submissions'
               /\ submissions'[s].volunteer_id = submissions[s].volunteer_id
               /\ submissions'[s].telegram_file_id = submissions[s].telegram_file_id
               /\ submissions'[s].status = "PROCESSING"
                  => submissions[s].status = "PROCESSING"]_vars

\* a Submission that was declined and then published by a later delivery
C31_Witness ==
    \E s \in DOMAIN submissions :
        /\ submissions[s].status = "PENDING_REVIEW"
        /\ submissions[s].decline_reason # <<>>
        /\ submissions[s].video_platform_url # None
        /\ submissions[s].telegram_file_id = "f2"
====
